---- MODULE Spec2Model ----
(***************************************************************************)
(* A model of imago's protocol engine (src/src/gemini.rs): the model-       *)
(* fallback submission loop GeminiClient::send_request, seen at its await   *)
(* points, and the response extractor GeminiClient::extract_image_data,     *)
(* a pure function of the parsed response.                                  *)
(*                                                                          *)
(* Option<T> is a sequence of length at most one: None is << >> and         *)
(* Some(v) is <<v>>.  Result<T> is a record: Ok(v) or Err(e), where e is    *)
(* one variant of ImagoError.  Strings are TLA+ strings; bytes are          *)
(* sequences of numbers in 0..255.                                          *)
(***************************************************************************)
EXTENDS Integers, Sequences, FiniteSets, TLC

VARIABLES
    model,      \* GeminiClient.model: the primary identifier of the client
    pc,         \* per invocation: where generate_image/send_request stands
    it,         \* per invocation: position of the for-loop's iterator in the chain
    tried,      \* per invocation: the local Vec `tried`
    status,     \* per invocation: `status` of the response of the current attempt
    body,       \* per invocation: what response.text().await gave in this attempt
    sent,       \* per invocation: what send_request returned (Option<Result>)
    result,     \* per invocation: what generate_image returned (Option<Result>)
    inflight,   \* the network: requests issued and not yet fully answered
    contacted,  \* history, per invocation: identifiers a request was issued for
    outcomes,   \* history, per invocation: how each finished attempt ended
    response,   \* the extractor on its own: its argument
    extracted,  \* the extractor on its own: its return value (Option<Result>)
    cli,        \* the run of the tool: its options and the GEMINI_API_KEY variable
    run         \* the run of the tool: where run() stands (pc: "start" before
                \* main.rs line 41, "generating" awaiting generate_image at 58,
                \* "saving" awaiting save_image at 68, "saved" before the preview
                \* at 74, "exit" after its return) and what it has done

vars == <<model, pc, it, tried, status, body, sent, result, inflight, contacted,
          outcomes, response, extracted, cli, run>>

-----------------------------------------------------------------------------
(* Option and Result *)

None == << >>

Some(v) == <<v>>

IsSome(o) == Len(o) = 1

Unwrap(o) == o[1]

Ok(v) == [ok |-> TRUE, val |-> v]

Err(e) == [ok |-> FALSE, err |-> e]

-----------------------------------------------------------------------------
(* ImagoError, src/src/error.rs *)

ApiError(s, msg) == [kind |-> "ApiError", status |-> s, message |-> msg]

ApiResponseError(msg) == [kind |-> "ApiResponseError", message |-> msg]

\* a NoImageData that is reported as a response error
NoImageDataAsResponseError ==
    [kind |-> "ApiResponseError", message |-> "No image data found in response"]

NoImageData == [kind |-> "NoImageData"]

SafetyFilter(msg) == [kind |-> "SafetyFilter", message |-> msg]

\* reqwest::Error converted by #[from]; `step` is the await that failed
NetworkError(step) == [kind |-> "NetworkError", step |-> step]

Base64Error(why) == [kind |-> "Base64Error", why |-> why]

ResponseFormatError(msg) == [kind |-> "ResponseFormatError", message |-> msg]

MissingApiKey == [kind |-> "MissingApiKey"]

\* std::io::Error converted by #[from]
IoError(msg) == [kind |-> "IoError", message |-> msg]

ImageError(msg) == [kind |-> "ImageError", message |-> msg]

DisplayError(msg) == [kind |-> "DisplayError", message |-> msg]

\* error.rs lines 27-37: the #[error] text of the errors of the preview
DisplayOf(e) ==
    CASE e.kind = "ImageError"   -> "Image processing error: " \o e.message
      [] e.kind = "IoError"      -> "File I/O error: " \o e.message
      [] e.kind = "DisplayError" -> "Terminal display error: " \o e.message

\* an is_retryable whose status range has no upper end
is_retryable_from_500(e) ==
    \/ e.kind = "NetworkError"
    \/ e.kind = "ApiError" /\ e.status >= 500

\* error.rs lines 50-59: matches!(self, NetworkError(_) | ApiError { status: 500..=599, .. })
is_retryable(e) ==
    \/ e.kind = "NetworkError"
    \/ e.kind = "ApiError" /\ e.status >= 500 /\ e.status <= 599

-----------------------------------------------------------------------------
(* Constants of gemini.rs *)

MODEL_FALLBACKS ==
    << "gemini-2.5-flash-image",
       "gemini-3.1-flash-image-preview",
       "gemini-3-pro-image-preview",
       "gemini-2.0-flash-exp-image-generation" >>

\* Cli::model: the default is the first fallback; any string can be given
DefaultModel == "gemini-2.5-flash-image"

Primaries ==
    {MODEL_FALLBACKS[k] : k \in 1..Len(MODEL_FALLBACKS)} \cup {"custom-model", ""}

-----------------------------------------------------------------------------
(* Strings *)

StartsWith(s, prefix) ==
    /\ Len(s) >= Len(prefix)
    /\ SubSeq(s, 1, Len(prefix)) = prefix

RECURSIVE JoinReversed(_, _)
\* a Join that lists the last string first
JoinReversed(strs, sep) ==
    IF Len(strs) = 0 THEN ""
    ELSE IF Len(strs) = 1 THEN strs[1]
    ELSE JoinReversed(Tail(strs), sep) \o sep \o strs[1]

RECURSIVE Join(_, _)
\* [String]::join(sep)
Join(strs, sep) ==
    IF Len(strs) = 0 THEN ""
    ELSE IF Len(strs) = 1 THEN strs[1]
    ELSE strs[1] \o sep \o Join(Tail(strs), sep)

\* a Contains that finds nothing
ContainsNever(seq, x) == Len(seq) < 0 /\ x = x

\* a Contains that looks at the last element only
ContainsLast(seq, x) == Len(seq) >= 1 /\ seq[Len(seq)] = x

\* Vec::contains
Contains(seq, x) == \E k \in 1..Len(seq) : seq[k] = x

-----------------------------------------------------------------------------
(* BASE64_STANDARD.decode: the standard alphabet, canonical padding         *)
(* required, no non-zero trailing bits.                                     *)

B64Chars == "ABCDEFGHIJKLMNOPQRSTUVWXYZabcdefghijklmnopqrstuvwxyz0123456789+/"

CharAt(s, k) == SubSeq(s, k, k)

IsB64Char(ch) == \E k \in 1..Len(B64Chars) : CharAt(B64Chars, k) = ch

Sextet(ch) == (CHOOSE k \in 1..Len(B64Chars) : CharAt(B64Chars, k) = ch) - 1

\* the number of trailing '=' of s
PadCount(s) ==
    IF Len(s) >= 1 /\ CharAt(s, Len(s)) = "="
    THEN IF Len(s) >= 2 /\ CharAt(s, Len(s) - 1) = "="
         THEN IF Len(s) >= 3 /\ CharAt(s, Len(s) - 2) = "=" THEN 3 ELSE 2
         ELSE 1
    ELSE 0

RECURSIVE DecodeQuads(_, _)
\* the bytes of the symbols s[k..], Len(s) - k + 1 being 0, 2, 3 or at least 4
DecodeQuads(s, k) ==
    LET left == Len(s) - k + 1
        a == Sextet(CharAt(s, k))
        b == Sextet(CharAt(s, k + 1))
        c == Sextet(CharAt(s, k + 2))
        d == Sextet(CharAt(s, k + 3))
    IN  IF left <= 0 THEN << >>
        ELSE IF left = 2 THEN << (a * 64 + b) \div 16 >>
        ELSE IF left = 3
             THEN LET v == a * 4096 + b * 64 + c
                  IN  << v \div 1024, (v \div 4) % 256 >>
        ELSE LET v == a * 262144 + b * 4096 + c * 64 + d
             IN  << v \div 65536, (v \div 256) % 256, v % 256 >>
                 \o DecodeQuads(s, k + 4)

Base64Decode(s) ==
    LET pad  == PadCount(s)
        syms == SubSeq(s, 1, Len(s) - pad)
        rem  == Len(syms) % 4
    IN  IF \E k \in 1..Len(syms) : ~IsB64Char(CharAt(syms, k))
        THEN Err(Base64Error("InvalidByte"))
        ELSE IF rem = 1 THEN Err(Base64Error("InvalidLength"))
        ELSE IF pad # (IF rem = 0 THEN 0 ELSE 4 - rem)
        THEN Err(Base64Error("InvalidPadding"))
        ELSE IF \/ rem = 2 /\ Sextet(CharAt(syms, Len(syms))) % 16 # 0
                \/ rem = 3 /\ Sextet(CharAt(syms, Len(syms))) % 4 # 0
        THEN Err(Base64Error("InvalidLastSymbol"))
        ELSE Ok(DecodeQuads(syms, 1))

-----------------------------------------------------------------------------
(* The response types of gemini.rs and the responses the model draws from   *)

Text(t) == [tag |-> "Text", text |-> t]

InlineData(mime, data) ==
    [tag |-> "InlineData", inline_data |-> [mime_type |-> mime, data |-> data]]

SafetyRating(cat, prob, blocked) ==
    [category |-> cat, probability |-> prob, blocked |-> blocked]

Candidate(content, finish, ratings) ==
    [content |-> content, finish_reason |-> finish, safety_ratings |-> ratings]

GenerateContentResponse(cands, feedback) ==
    [candidates |-> cands, prompt_feedback |-> feedback]

PromptFeedback(reason) == [block_reason |-> reason]

\* "UE5H" encodes the bytes of "PNG" and "/9g=" the bytes FF D8; "UE5" lacks
\* its padding
PartAtoms ==
    { Text("here you go"),
      Text("sorry, can't help"),
      InlineData("image/png", "UE5H"),
      InlineData("image/webp", "/9g="),
      InlineData("image/jpeg", "UE5"),
      InlineData("text/plain", "UE5H") }

MaxParts == 3

PartLists == UNION {[1..n -> PartAtoms] : n \in 0..MaxParts}

Contents == {None} \cup {Some([parts |-> ps]) : ps \in PartLists}

FinishReasons == {None, Some("STOP"), Some("IMAGE_SAFETY"), Some("MAX_TOKENS")}

RHarassment == SafetyRating("HARM_CATEGORY_HARASSMENT", "HIGH", Some(TRUE))

RSexual == SafetyRating("HARM_CATEGORY_SEXUALLY_EXPLICIT", "MEDIUM", Some(TRUE))

RHate == SafetyRating("HARM_CATEGORY_HATE_SPEECH", "LOW", Some(FALSE))

RDanger == SafetyRating("HARM_CATEGORY_DANGEROUS_CONTENT", "NEGLIGIBLE", None)

RatingLists ==
    { None,
      Some(<< >>),
      Some(<<RDanger, RHate>>),
      Some(<<RHarassment>>),
      Some(<<RHate, RSexual>>),
      Some(<<RSexual, RDanger, RHarassment>>) }

Candidates ==
    {Candidate(c, f, r) : c \in Contents, f \in FinishReasons, r \in RatingLists}

\* what may follow the first candidate in the list
LaterCandidates ==
    { << >>,
      << Candidate(None, Some("IMAGE_SAFETY"), Some(<<RHarassment>>)),
         Candidate(Some([parts |-> <<InlineData("image/png", "UE5H")>>]),
                   Some("STOP"), None) >> }

CandidateLists ==
    {None, Some(<< >>)}
        \cup {Some(<<c>> \o later) : c \in Candidates, later \in LaterCandidates}

Feedbacks ==
    { None,
      Some(PromptFeedback(None)),
      Some(PromptFeedback(Some(""))),
      Some(PromptFeedback(Some("SAFETY"))) }

-----------------------------------------------------------------------------
(* GeminiClient::extract_image_data *)

\* a BlockedRatings that takes a rating with no `blocked` flag for blocked
BlockedRatingsDefaultBlocked(ratings) ==
    LET isBlocked(r) == IF IsSome(r.blocked) THEN Unwrap(r.blocked) ELSE TRUE
        kept == SelectSeq(ratings, isBlocked)
    IN  [k \in 1..Len(kept) |-> kept[k].category \o ": " \o kept[k].probability]

\* lines 228-232: the blocked ratings, formatted, in the ratings' order
BlockedRatings(ratings) ==
    LET isBlocked(r) == IF IsSome(r.blocked) THEN Unwrap(r.blocked) ELSE FALSE
        kept == SelectSeq(ratings, isBlocked)
    IN  [k \in 1..Len(kept) |-> kept[k].category \o ": " \o kept[k].probability]

\* a CheckFinishReason that looks at the ratings under every finish reason
CheckFinishReasonAlwaysRatings(candidate) ==
    LET blocked == IF IsSome(candidate.safety_ratings)
                   THEN BlockedRatings(Unwrap(candidate.safety_ratings))
                   ELSE << >>
    IN  IF IsSome(candidate.safety_ratings) /\ Len(blocked) # 0
        THEN Some(Err(SafetyFilter(Join(blocked, ", "))))
        ELSE IF candidate.finish_reason = Some("IMAGE_SAFETY")
        THEN Some(Err(SafetyFilter("Image content blocked by safety filters")))
        ELSE None

\* a CheckFinishReason that tests for IMAGE_SAFETY before it looks at the ratings
CheckFinishReasonGenericFirst(candidate) ==
    IF IsSome(candidate.finish_reason) /\ Unwrap(candidate.finish_reason) # "STOP"
    THEN LET reason  == Unwrap(candidate.finish_reason)
             blocked == IF IsSome(candidate.safety_ratings)
                        THEN BlockedRatings(Unwrap(candidate.safety_ratings))
                        ELSE << >>
         IN  IF reason = "IMAGE_SAFETY"
             THEN Some(Err(SafetyFilter("Image content blocked by safety filters")))
             ELSE IF IsSome(candidate.safety_ratings) /\ Len(blocked) # 0
             THEN Some(Err(SafetyFilter(Join(blocked, ", "))))
             ELSE None
    ELSE None

\* a CheckFinishReason that fails on every finish reason other than STOP
CheckFinishReasonStrict(candidate) ==
    IF IsSome(candidate.finish_reason) /\ Unwrap(candidate.finish_reason) # "STOP"
    THEN LET reason  == Unwrap(candidate.finish_reason)
             blocked == IF IsSome(candidate.safety_ratings)
                        THEN BlockedRatings(Unwrap(candidate.safety_ratings))
                        ELSE << >>
         IN  IF IsSome(candidate.safety_ratings) /\ Len(blocked) # 0
             THEN Some(Err(SafetyFilter(Join(blocked, ", "))))
             ELSE IF reason = "IMAGE_SAFETY"
             THEN Some(Err(SafetyFilter("Image content blocked by safety filters")))
             ELSE Some(Err(SafetyFilter("Generation stopped: " \o reason)))
    ELSE None

\* lines 224-245: Err(e) when the finish reason ends the extraction, else None
CheckFinishReason(candidate) ==
    IF IsSome(candidate.finish_reason) /\ Unwrap(candidate.finish_reason) # "STOP"
    THEN LET reason  == Unwrap(candidate.finish_reason)
             blocked == IF IsSome(candidate.safety_ratings)
                        THEN BlockedRatings(Unwrap(candidate.safety_ratings))
                        ELSE << >>
         IN  IF IsSome(candidate.safety_ratings) /\ Len(blocked) # 0
             THEN Some(Err(SafetyFilter(Join(blocked, ", "))))
             ELSE IF reason = "IMAGE_SAFETY"
             THEN Some(Err(SafetyFilter("Image content blocked by safety filters")))
             ELSE None
    ELSE None

\* an IsImageMime that takes every inline data for an image
IsImageMimeAny(mime_type) == Len(mime_type) >= 0

\* line 255
IsImageMime(mime_type) == StartsWith(mime_type, "image/")

RECURSIVE ScanPartsKeepFirstText(_, _, _)
\* a ScanParts that keeps the first text part instead of the last
ScanPartsKeepFirstText(parts, k, text_response) ==
    IF k > Len(parts)
    THEN IF IsSome(text_response)
         THEN Err(ApiResponseError("Model returned text instead of image: "
                                       \o Unwrap(text_response)))
         ELSE Err(NoImageData)
    ELSE LET part == parts[k]
         IN  IF part.tag = "InlineData"
             THEN IF StartsWith(part.inline_data.mime_type, "image/")
                  THEN LET decoded == Base64Decode(part.inline_data.data)
                       IN  IF decoded.ok
                           THEN Ok(<<decoded.val, text_response>>)
                           ELSE decoded
                  ELSE ScanPartsKeepFirstText(parts, k + 1, text_response)
             ELSE ScanPartsKeepFirstText(parts, k + 1,
                      IF IsSome(text_response) THEN text_response
                      ELSE Some(part.text))

RECURSIVE ScanPartsTextIsSuccess(_, _, _)
\* a ScanParts that returns the text alone, with no bytes, when no image is found
ScanPartsTextIsSuccess(parts, k, text_response) ==
    IF k > Len(parts)
    THEN IF IsSome(text_response)
         THEN Ok(<< << >>, text_response >>)
         ELSE Err(NoImageData)
    ELSE LET part == parts[k]
         IN  IF part.tag = "InlineData"
             THEN IF StartsWith(part.inline_data.mime_type, "image/")
                  THEN LET decoded == Base64Decode(part.inline_data.data)
                       IN  IF decoded.ok
                           THEN Ok(<<decoded.val, text_response>>)
                           ELSE decoded
                  ELSE ScanPartsTextIsSuccess(parts, k + 1, text_response)
             ELSE ScanPartsTextIsSuccess(parts, k + 1, Some(part.text))

RECURSIVE ScanPartsSkipUndecodable(_, _, _)
\* a ScanParts that goes on to the next part when an image payload does not decode
ScanPartsSkipUndecodable(parts, k, text_response) ==
    IF k > Len(parts)
    THEN IF IsSome(text_response)
         THEN Err(ApiResponseError("Model returned text instead of image: "
                                       \o Unwrap(text_response)))
         ELSE Err(NoImageData)
    ELSE LET part == parts[k]
         IN  IF part.tag = "InlineData"
             THEN IF StartsWith(part.inline_data.mime_type, "image/")
                     /\ Base64Decode(part.inline_data.data).ok
                  THEN Ok(<<Base64Decode(part.inline_data.data).val, text_response>>)
                  ELSE ScanPartsSkipUndecodable(parts, k + 1, text_response)
             ELSE ScanPartsSkipUndecodable(parts, k + 1, Some(part.text))

RECURSIVE ScanParts(_, _, _)
\* lines 252-274: the for loop from part k on, and what follows it
ScanParts(parts, k, text_response) ==
    IF k > Len(parts)
    THEN IF IsSome(text_response)
         THEN Err(ApiResponseError("Model returned text instead of image: "
                                       \o Unwrap(text_response)))
         ELSE Err(NoImageData)
    ELSE LET part == parts[k]
         IN  IF part.tag = "InlineData"
             THEN IF IsImageMime(part.inline_data.mime_type)
                  THEN LET decoded == Base64Decode(part.inline_data.data)
                       IN  IF decoded.ok
                           THEN Ok(<<decoded.val, text_response>>)
                           ELSE decoded
                  ELSE ScanParts(parts, k + 1, text_response)
             ELSE ScanParts(parts, k + 1, Some(part.text))

\* a CheckPromptFeedback that is consulted only when there is no candidate
CheckPromptFeedbackLate(resp) ==
    IF /\ IsSome(resp.prompt_feedback)
       /\ IsSome(Unwrap(resp.prompt_feedback).block_reason)
       /\ (~IsSome(resp.candidates) \/ Len(Unwrap(resp.candidates)) = 0)
    THEN Some(Err(SafetyFilter("Request blocked: "
                      \o Unwrap(Unwrap(resp.prompt_feedback).block_reason))))
    ELSE None

\* a CheckPromptFeedback that fires on any prompt feedback, block reason or not
CheckPromptFeedbackPresent(resp) ==
    IF IsSome(resp.prompt_feedback)
    THEN Some(Err(SafetyFilter("Request blocked: "
                      \o (IF IsSome(Unwrap(resp.prompt_feedback).block_reason)
                          THEN Unwrap(Unwrap(resp.prompt_feedback).block_reason)
                          ELSE ""))))
    ELSE None

\* lines 206-213: Err(e) when the prompt feedback ends the extraction, else None
CheckPromptFeedback(resp) ==
    IF IsSome(resp.prompt_feedback)
           /\ IsSome(Unwrap(resp.prompt_feedback).block_reason)
    THEN Some(Err(SafetyFilter("Request blocked: "
                      \o Unwrap(Unwrap(resp.prompt_feedback).block_reason))))
    ELSE None

\* an extract_image_data that takes the last candidate instead of the first
extract_image_data_last(resp) ==
    IF IsSome(CheckPromptFeedback(resp)) THEN Unwrap(CheckPromptFeedback(resp))
    ELSE IF ~IsSome(resp.candidates) THEN Err(NoImageData)
    ELSE IF Len(Unwrap(resp.candidates)) = 0 THEN Err(NoImageData)
    ELSE LET candidate == Unwrap(resp.candidates)[Len(Unwrap(resp.candidates))]
         IN  IF IsSome(CheckFinishReason(candidate))
             THEN Unwrap(CheckFinishReason(candidate))
             ELSE IF ~IsSome(candidate.content) THEN Err(NoImageData)
             ELSE ScanParts(Unwrap(candidate.content).parts, 1, None)

\* lines 201-275
extract_image_data(resp) ==
    IF IsSome(CheckPromptFeedback(resp)) THEN Unwrap(CheckPromptFeedback(resp))
    ELSE IF ~IsSome(resp.candidates) THEN Err(NoImageData)
    ELSE IF Len(Unwrap(resp.candidates)) = 0 THEN Err(NoImageData)
    ELSE LET candidate == Head(Unwrap(resp.candidates))
         IN  IF IsSome(CheckFinishReason(candidate))
             THEN Unwrap(CheckFinishReason(candidate))
             ELSE IF ~IsSome(candidate.content) THEN Err(NoImageData)
             ELSE ScanParts(Unwrap(candidate.content).parts, 1, None)

-----------------------------------------------------------------------------
(* The transport: what the service may answer *)

\* http::StatusCode::is_success
IsSuccess(s) == s >= 200 /\ s < 300

\* an IsNotFound that also holds of the server errors
IsNotFoundOrServerError(s) == s = 404 \/ s >= 500

\* an IsNotFound that holds of every client error
IsClientError(s) == s >= 400 /\ s < 500

\* line 186: status.as_u16() != 404, negated
IsNotFound(s) == s = 404

Statuses == {200, 299, 300, 403, 404, 499, 500, 599, 600}

BodyNoFields == "{}"

BodyErrorObject == "{\"error\":{\"code\":429,\"message\":\"quota\"}}"

BodyBlocked == "{\"promptFeedback\":{\"blockReason\":\"SAFETY\"}}"

BodyImage ==
    "{\"candidates\":[{\"content\":{\"parts\":[{\"text\":\"here you go\"},"
        \o "{\"inlineData\":{\"mimeType\":\"image/png\",\"data\":\"UE5H\"}}]},"
        \o "\"finishReason\":\"STOP\"}]}"

BodyTextOnly ==
    "{\"candidates\":[{\"content\":{\"parts\":[{\"text\":\"sorry, can't help\"}]},"
        \o "\"finishReason\":\"STOP\"}]}"

BodyBadImage ==
    "{\"candidates\":[{\"content\":{\"parts\":["
        \o "{\"inlineData\":{\"mimeType\":\"image/jpeg\",\"data\":\"UE5\"}}]}}]}"

\* the bodies a response may carry: the last three are no GenerateContentResponse
WireBodies ==
    { BodyNoFields, BodyErrorObject, BodyBlocked, BodyImage, BodyTextOnly,
      BodyBadImage,
      "", "<html>502 Bad Gateway</html>", "{\"candidates\":\"x\"}" }

\* the Display of the serde_json::Error for the bodies that do not parse
SerdeError(response_text) ==
    CASE response_text = "" ->
            "EOF while parsing a value at line 1 column 0"
      [] response_text = "{\"candidates\":\"x\"}" ->
            "invalid type: string \"x\", expected a sequence at line 1 column 17"
      [] OTHER ->
            "expected value at line 1 column 1"

\* a ParseResponse that takes what it cannot parse for a response with no fields
ParseResponseLenient(response_text) ==
    CASE response_text = BodyBlocked ->
            Ok(GenerateContentResponse(None, Some(PromptFeedback(Some("SAFETY")))))
      [] OTHER ->
            Ok(GenerateContentResponse(None, None))

\* serde_json::from_str::<GenerateContentResponse> on the bodies of WireBodies:
\* absent fields are None, unknown fields are ignored, anything else is an error
ParseResponse(response_text) ==
    CASE response_text = BodyNoFields ->
            Ok(GenerateContentResponse(None, None))
      [] response_text = BodyErrorObject ->
            Ok(GenerateContentResponse(None, None))
      [] response_text = BodyBlocked ->
            Ok(GenerateContentResponse(None, Some(PromptFeedback(Some("SAFETY")))))
      [] response_text = BodyImage ->
            Ok(GenerateContentResponse(
                   Some(<< Candidate(
                       Some([parts |-> << Text("here you go"),
                                          InlineData("image/png", "UE5H") >>]),
                       Some("STOP"), None) >>),
                   None))
      [] response_text = BodyTextOnly ->
            Ok(GenerateContentResponse(
                   Some(<< Candidate(
                       Some([parts |-> << Text("sorry, can't help") >>]),
                       Some("STOP"), None) >>),
                   None))
      [] response_text = BodyBadImage ->
            Ok(GenerateContentResponse(
                   Some(<< Candidate(
                       Some([parts |-> << InlineData("image/jpeg", "UE5") >>]),
                       None, None) >>),
                   None))
      [] OTHER ->
            Err(ResponseFormatError("Failed to parse API response: "
                    \o SerdeError(response_text)))

\* response.text().await: the body, or a transport failure while reading it
BodyReads == {Err(NetworkError("text"))} \cup {Ok(b) : b \in WireBodies}

\* Result<String>::unwrap_or_default
UnwrapOrDefault(r) == IF r.ok THEN r.val ELSE ""

-----------------------------------------------------------------------------
(* GeminiClient::generate_image and GeminiClient::send_request, for each    *)
(* invocation c, one step per stretch of code between two await points      *)

\* the invocations of generate_image on the one client; Spec runs the first
Callers == {1, 2}

\* line 162: std::iter::once(self.model).chain(MODEL_FALLBACKS)
Chain == <<model>> \o MODEL_FALLBACKS

Request(c, m) == [caller |-> c, model |-> m, attempt |-> Len(contacted[c]) + 1]

InFlightOf(c) == {r \in inflight : r.caller = c}

\* how an attempt's send().await ended: with a response, or with a transport failure
Responded(s) == [kind |-> "response", status |-> s]

TransportFailed == [kind |-> "transport"]

\* a tried list that the invocations on one client share
TriedShared(c) == tried[1] \o tried[2]

\* line 160: let mut tried = Vec::new(), a local of the invocation
Tried(c) == tried[c]

Return(c, r) ==
    /\ sent' = [sent EXCEPT ![c] = Some(r)]
    /\ pc' = [pc EXCEPT ![c] = "returned"]

\* a run that has built its client from the --api-key option (main.rs 41-52)
ClientBuilt == [api_key |-> Some("key-of-option"), env_key |-> None,
                no_preview |-> FALSE]

\* run() at line 58, about to call generate_image
AtGenerateImage ==
    [pc |-> "generating", api_key |-> Some("key-of-option"),
     image_data |-> None, file |-> None, events |-> <<"generating">>,
     result |-> None]

Init ==
    /\ model \in Primaries
    /\ pc = [c \in Callers |-> "idle"]
    /\ it = [c \in Callers |-> 1]
    /\ tried = [c \in Callers |-> << >>]
    /\ status = [c \in Callers |-> 0]
    /\ body = [c \in Callers |-> None]
    /\ sent = [c \in Callers |-> None]
    /\ result = [c \in Callers |-> None]
    /\ inflight = {}
    /\ contacted = [c \in Callers |-> << >>]
    /\ outcomes = [c \in Callers |-> << >>]
    /\ response = GenerateContentResponse(None, None)
    /\ extracted = None
    /\ cli = ClientBuilt
    /\ run = AtGenerateImage

\* lines 139-151 and 160: generate_image builds the request and enters send_request
Call(c) ==
    /\ pc[c] = "idle"
    /\ pc' = [pc EXCEPT ![c] = "loop"]
    /\ tried' = [tried EXCEPT ![c] = << >>]
    /\ it' = [it EXCEPT ![c] = 1]
    /\ UNCHANGED <<cli, run, model, status, body, sent, result, inflight, contacted, outcomes,
                   response, extracted>>

\* lines 162-165: the next identifier was tried already
LoopSkip(c) ==
    /\ pc[c] = "loop"
    /\ it[c] <= Len(Chain)
    /\ Contains(Tried(c), Chain[it[c]])
    /\ it' = [it EXCEPT ![c] = it[c] + 1]
    /\ UNCHANGED <<cli, run, model, pc, tried, status, body, sent, result, inflight,
                   contacted, outcomes, response, extracted>>

\* lines 162-173: the next identifier is new; its request is sent
LoopSend(c) ==
    /\ pc[c] = "loop"
    /\ it[c] <= Len(Chain)
    /\ ~Contains(Tried(c), Chain[it[c]])
    /\ tried' = [tried EXCEPT ![c] = Append(tried[c], Chain[it[c]])]
    /\ inflight' = inflight \cup {Request(c, Chain[it[c]])}
    /\ contacted' = [contacted EXCEPT ![c] = Append(contacted[c], Chain[it[c]])]
    /\ it' = [it EXCEPT ![c] = it[c] + 1]
    /\ pc' = [pc EXCEPT ![c] = "send"]
    /\ UNCHANGED <<cli, run, model, status, body, sent, result, outcomes, response, extracted>>

\* lines 194-197: the chain is exhausted
LoopExhausted(c) ==
    /\ pc[c] = "loop"
    /\ it[c] > Len(Chain)
    /\ Return(c, Err(ApiResponseError(
                  "No available image model found. Tried: " \o Join(tried[c], ", "))))
    /\ UNCHANGED <<cli, run, model, it, tried, status, body, result, inflight, contacted,
                   outcomes, response, extracted>>

\* line 173: send().await fails
SendFails(c) ==
    /\ pc[c] = "send"
    /\ inflight' = inflight \ InFlightOf(c)
    /\ outcomes' = [outcomes EXCEPT ![c] = Append(outcomes[c], TransportFailed)]
    /\ Return(c, Err(NetworkError("send")))
    /\ UNCHANGED <<cli, run, model, it, tried, status, body, result, contacted, response,
                   extracted>>

\* lines 173-174: send().await yields a response with a status s of statuses
SendRespondsWith(c, statuses) ==
    /\ pc[c] = "send"
    /\ \E s \in statuses :
          /\ status' = [status EXCEPT ![c] = s]
          /\ outcomes' = [outcomes EXCEPT ![c] = Append(outcomes[c], Responded(s))]
    /\ pc' = [pc EXCEPT ![c] = "text"]
    /\ UNCHANGED <<cli, run, model, it, tried, body, sent, result, inflight, contacted,
                   response, extracted>>

SendResponds(c) == SendRespondsWith(c, Statuses)

\* lines 176-183: the body of a success response is read and parsed
TextOfSuccessWith(c, reads) ==
    /\ pc[c] = "text"
    /\ IsSuccess(status[c])
    /\ inflight' = inflight \ InFlightOf(c)
    /\ \E read \in reads :
          /\ body' = [body EXCEPT ![c] = Some(read)]
          /\ Return(c, IF read.ok THEN ParseResponse(read.val) ELSE read)
    /\ UNCHANGED <<cli, run, model, it, tried, status, result, contacted, outcomes, response,
                   extracted>>

TextOfSuccess(c) == TextOfSuccessWith(c, BodyReads)

\* lines 185-191: the body of a failure response is read; 404 goes on, others end
TextOfFailureWith(c, reads) ==
    /\ pc[c] = "text"
    /\ ~IsSuccess(status[c])
    /\ inflight' = inflight \ InFlightOf(c)
    /\ \E read \in reads :
          LET error_text == UnwrapOrDefault(read)
          IN  IF ~IsNotFound(status[c])
              THEN /\ body' = [body EXCEPT ![c] = Some(read)]
                   /\ Return(c, Err(ApiError(status[c], error_text)))
              ELSE \* the iteration ends; error_text is not looked at again, and
                   \* body keeps what the attempt's read gave until the next read
                   /\ body' = [body EXCEPT ![c] = Some(read)]
                   /\ pc' = [pc EXCEPT ![c] = "loop"]
                   /\ UNCHANGED sent
    /\ UNCHANGED <<cli, run, model, it, tried, status, result, contacted, outcomes, response,
                   extracted>>

TextOfFailure(c) == TextOfFailureWith(c, BodyReads)

\* lines 151-152: `?` on send_request's result, then extract_image_data
GenerateImageReturns(c) ==
    /\ pc[c] = "returned"
    /\ result' = [result EXCEPT ![c] =
                     IF Unwrap(sent[c]).ok
                     THEN Some(extract_image_data(Unwrap(sent[c]).val))
                     ELSE sent[c]]
    /\ pc' = [pc EXCEPT ![c] = "done"]
    /\ UNCHANGED <<cli, run, model, it, tried, status, body, sent, inflight, contacted,
                   outcomes, response, extracted>>

Step(c) ==
    \/ Call(c)
    \/ LoopSkip(c)
    \/ LoopSend(c)
    \/ LoopExhausted(c)
    \/ SendFails(c)
    \/ SendResponds(c)
    \/ TextOfSuccess(c)
    \/ TextOfFailure(c)
    \/ GenerateImageReturns(c)

\* one invocation of generate_image on a client
Next == Step(1)

Spec == Init /\ [][Next]_vars

\* every step of an invocation after its start
Progress(c) ==
    \/ LoopSkip(c)
    \/ LoopSend(c)
    \/ LoopExhausted(c)
    \/ SendFails(c)
    \/ SendResponds(c)
    \/ TextOfSuccess(c)
    \/ TextOfFailure(c)
    \/ GenerateImageReturns(c)

\* Spec where every network call completes and the code between two await
\* points runs: a started invocation is not left waiting forever
SpecFair == Spec /\ WF_vars(Progress(1))

\* the answers that the invocations get when two of them run at once
ConcurrentStatuses == {200, 404, 500}

ConcurrentReads == {Err(NetworkError("text")), Ok(BodyImage), Ok("")}

StepConcurrent(c) ==
    \/ Call(c)
    \/ LoopSkip(c)
    \/ LoopSend(c)
    \/ LoopExhausted(c)
    \/ SendFails(c)
    \/ SendRespondsWith(c, ConcurrentStatuses)
    \/ TextOfSuccessWith(c, ConcurrentReads)
    \/ TextOfFailureWith(c, ConcurrentReads)
    \/ GenerateImageReturns(c)

\* two invocations of generate_image on one client (&self), interleaved at
\* their await points in every order
NextConcurrent == \E c \in Callers : StepConcurrent(c)

SpecConcurrent == Init /\ [][NextConcurrent]_vars

-----------------------------------------------------------------------------
(* run() of main.rs: one run of the tool, from the credential check to the  *)
(* preview, with invocation 1 as its call of generate_image                 *)

\* the options and the environment of a run: --api-key, GEMINI_API_KEY, --no-preview
CliInputs ==
    [api_key : {None, Some("key-of-option")},
     env_key : {None, Some("key-of-environment")},
     no_preview : BOOLEAN]

\* main.rs lines 41-43: cli.api_key.or_else(|| env::var("GEMINI_API_KEY").ok())
ApiKeyOf(c) == IF IsSome(c.api_key) THEN c.api_key ELSE c.env_key

\* Ok(())
Unit == << >>

OsErrors == {"Permission denied (os error 13)", "No space left on device (os error 28)"}

\* image_handler.rs lines 86-140: what display_in_terminal returns when the
\* preview is enabled
DisplayResults ==
    { Ok(Unit),
      Err(IoError("Permission denied (os error 13)")),
      Err(DisplayError("Failed to launch viu: No such file or directory (os error 2)")),
      Err(DisplayError("viu preview process exited with non-zero status")),
      Err(ImageError("Failed to load image: The image format could not be determined")),
      Err(DisplayError("Failed to display image: Broken pipe (os error 32)")) }

Exit(r) == [run EXCEPT !.pc = "exit", !.result = Some(r)]

InitRun ==
    /\ model \in Primaries
    /\ pc = [c \in Callers |-> "idle"]
    /\ it = [c \in Callers |-> 1]
    /\ tried = [c \in Callers |-> << >>]
    /\ status = [c \in Callers |-> 0]
    /\ body = [c \in Callers |-> None]
    /\ sent = [c \in Callers |-> None]
    /\ result = [c \in Callers |-> None]
    /\ inflight = {}
    /\ contacted = [c \in Callers |-> << >>]
    /\ outcomes = [c \in Callers |-> << >>]
    /\ response = GenerateContentResponse(None, None)
    /\ extracted = None
    /\ cli \in CliInputs
    /\ run = [pc |-> "start", api_key |-> None, image_data |-> None,
              file |-> None, events |-> << >>, result |-> None]

\* main.rs lines 41-58: the credential check, the client, the message, and the
\* call of generate_image up to send_request's loop
RunStart ==
    /\ run.pc = "start"
    /\ IF ~IsSome(ApiKeyOf(cli))
       THEN /\ run' = Exit(Err(MissingApiKey))
            /\ UNCHANGED <<pc, tried, it>>
       ELSE /\ run' = [run EXCEPT !.pc = "generating",
                                  !.api_key = ApiKeyOf(cli),
                                  !.events = Append(@, "generating")]
            /\ pc' = [pc EXCEPT ![1] = "loop"]
            /\ tried' = [tried EXCEPT ![1] = << >>]
            /\ it' = [it EXCEPT ![1] = 1]
    /\ UNCHANGED <<cli, model, status, body, sent, result, inflight, contacted,
                   outcomes, response, extracted>>

\* main.rs lines 58-65: `?` on what generate_image returned
RunGenerated ==
    /\ run.pc = "generating"
    /\ pc[1] = "done"
    /\ run' = IF Unwrap(result[1]).ok
              THEN [run EXCEPT !.pc = "saving",
                               !.image_data = Some(Unwrap(result[1]).val[1])]
              ELSE Exit(Unwrap(result[1]))
    /\ UNCHANGED <<cli, model, pc, it, tried, status, body, sent, result, inflight,
                   contacted, outcomes, response, extracted>>

\* main.rs lines 68-71 and image_handler.rs lines 68-83: save_image and its `?`
RunSave ==
    /\ run.pc = "saving"
    /\ \/ \E e \in OsErrors :
             run' = Exit(Err(IoError("Failed to create directory: " \o e)))
       \/ \E e \in OsErrors :
             run' = Exit(Err(IoError(e)))
       \/ \E e \in OsErrors, n \in 0..(Len(Unwrap(run.image_data)) - 1) :
             \* File::create made the file; write_all or flush failed
             run' = [Exit(Err(IoError(e))) EXCEPT
                         !.file = Some(SubSeq(Unwrap(run.image_data), 1, n))]
       \/ run' = [run EXCEPT !.pc = "saved",
                             !.file = run.image_data,
                             !.events = Append(@, "success")]
    /\ UNCHANGED <<cli, model, pc, it, tried, status, body, sent, result, inflight,
                   contacted, outcomes, response, extracted>>

\* a preview whose error is passed on with `?`
RunPreviewPropagates ==
    /\ run.pc = "saved"
    /\ IF cli.no_preview
       THEN run' = Exit(Ok(Unit))
       ELSE \E shown \in DisplayResults :
               IF shown.ok
               THEN run' = [Exit(Ok(Unit)) EXCEPT !.events = Append(@, "preview")]
               ELSE run' = Exit(shown)
    /\ UNCHANGED <<cli, model, pc, it, tried, status, body, sent, result, inflight,
                   contacted, outcomes, response, extracted>>

\* main.rs lines 74-84: the preview, a warning when it fails, and Ok(())
RunPreview ==
    /\ run.pc = "saved"
    /\ IF cli.no_preview
       THEN run' = Exit(Ok(Unit))
       ELSE \E shown \in DisplayResults :
               run' = [Exit(Ok(Unit)) EXCEPT !.events =
                          Append(@, IF shown.ok THEN "preview"
                                    ELSE "warning: Could not display preview: "
                                             \o DisplayOf(shown.err))]
    /\ UNCHANGED <<cli, model, pc, it, tried, status, body, sent, result, inflight,
                   contacted, outcomes, response, extracted>>

NextRun ==
    \/ RunStart
    \/ Progress(1)
    \/ RunGenerated
    \/ RunSave
    \/ RunPreview

SpecRun == InitRun /\ [][NextRun]_vars

-----------------------------------------------------------------------------
(* extract_image_data on its own, applied to a response of every candidate  *)
(* list of CandidateLists and every prompt feedback of Feedbacks            *)

InitExtract ==
    /\ model = DefaultModel
    /\ pc = [c \in Callers |-> "idle"]
    /\ it = [c \in Callers |-> 1]
    /\ tried = [c \in Callers |-> << >>]
    /\ status = [c \in Callers |-> 0]
    /\ body = [c \in Callers |-> None]
    /\ sent = [c \in Callers |-> None]
    /\ result = [c \in Callers |-> None]
    /\ inflight = {}
    /\ contacted = [c \in Callers |-> << >>]
    /\ outcomes = [c \in Callers |-> << >>]
    /\ \E cs \in CandidateLists, fb \in Feedbacks :
          response = GenerateContentResponse(cs, fb)
    /\ extracted = None
    /\ cli = ClientBuilt
    /\ run = AtGenerateImage

ExtractImageData ==
    /\ extracted = None
    /\ extracted' = Some(extract_image_data(response))
    /\ UNCHANGED <<cli, run, model, pc, it, tried, status, body, sent, result, inflight,
                   contacted, outcomes, response>>

NextExtract == ExtractImageData

SpecExtract == InitExtract /\ [][NextExtract]_vars

-----------------------------------------------------------------------------
(* Properties of send_request, under Spec *)

Returned(c) == pc[c] \in {"returned", "done"}

NoDuplicates(seq) == \A j, k \in 1..Len(seq) : seq[j] = seq[k] => j = k

IsPrefix(p, seq) == Len(p) <= Len(seq) /\ SubSeq(seq, 1, Len(p)) = p

\* attempt k of invocation c was answered with a status of the set S
AnsweredIn(c, k, S) ==
    /\ outcomes[c][k].kind = "response"
    /\ outcomes[c][k].status \in S

FatalStatuses == {s \in Statuses : ~(s >= 200 /\ s <= 299) /\ s # 404}

\* C1: an attempt answered with a status that is neither 2xx nor 404 is the last
\* attempt of the call: no identifier is contacted after it, and once the body of
\* the answer is read the call returns ApiError with that status and that body.
C1_FatalStatusEndsCall ==
    \A c \in Callers : \A k \in 1..Len(outcomes[c]) :
        AnsweredIn(c, k, FatalStatuses) =>
            /\ k = Len(outcomes[c])
            /\ Len(contacted[c]) = k
            /\ pc[c] \in {"text", "returned", "done"}
            /\ Returned(c) => ~Unwrap(sent[c]).ok
            /\ (Returned(c) /\ Unwrap(body[c]).ok) =>
                  sent[c] = Some(Err([kind |-> "ApiError",
                                      status |-> outcomes[c][k].status,
                                      message |-> Unwrap(body[c]).val]))

\* 500 on the first of five identifiers: one network call, ApiError(500, body)
C1_Witness ==
    /\ model = "custom-model"
    /\ pc[1] = "done"
    /\ outcomes[1] = <<Responded(500)>>
    /\ contacted[1] = <<"custom-model">>
    /\ result[1] = Some(Err(ApiError(500, "<html>502 Bad Gateway</html>")))

\* the combined attempt sequence: the chain with every repeated identifier removed
RECURSIVE Deduplicated(_, _)
Deduplicated(seq, seen) ==
    IF Len(seq) = 0 THEN << >>
    ELSE IF Head(seq) \in seen THEN Deduplicated(Tail(seq), seen)
    ELSE <<Head(seq)>> \o Deduplicated(Tail(seq), seen \cup {Head(seq)})

AttemptSequence == Deduplicated(<<model>> \o MODEL_FALLBACKS, {})

RECURSIVE CommaList(_)
\* the strings of seq, in order, separated by a comma and a space
CommaList(seq) ==
    IF Len(seq) = 0 THEN ""
    ELSE IF Len(seq) = 1 THEN seq[1]
    ELSE CommaList(SubSeq(seq, 1, Len(seq) - 1)) \o ", " \o seq[Len(seq)]

AllNotFound(c) ==
    /\ Len(outcomes[c]) = Len(AttemptSequence)
    /\ \A k \in 1..Len(outcomes[c]) : AnsweredIn(c, k, {404})

\* C2: when every identifier of the attempt sequence has answered 404, send_request
\* returns ApiResponseError whose message lists the contacted identifiers in the
\* order of contact, separated by ", ", and none was contacted twice.
C2_ExhaustedListsTried ==
    \A c \in Callers :
        (Returned(c) /\ AllNotFound(c)) =>
            /\ contacted[c] = AttemptSequence
            /\ NoDuplicates(contacted[c])
            /\ sent[c] = Some(Err(ApiResponseError(
                   "No available image model found. Tried: "
                       \o CommaList(contacted[c]))))

C2_Witness ==
    /\ model = "gemini-3-pro-image-preview"
    /\ pc[1] = "done"
    /\ AllNotFound(1)
    /\ result[1] = Some(Err(ApiResponseError(
           "No available image model found. Tried: gemini-3-pro-image-preview, "
               \o "gemini-2.5-flash-image, gemini-3.1-flash-image-preview, "
               \o "gemini-2.0-flash-exp-image-generation")))

\* C3: the identifiers contacted in one call are a prefix of the primary followed
\* by the fallbacks, in their order, without those already tried; the primary
\* comes first and no identifier is contacted twice.
C3_ContactedIsPrefix ==
    \A c \in Callers :
        /\ IsPrefix(contacted[c], AttemptSequence)
        /\ NoDuplicates(contacted[c])
        /\ Len(contacted[c]) >= 1 => contacted[c][1] = model
        /\ \A k \in 2..Len(contacted[c]) : contacted[c][k] # model

\* the primary is the third fallback; all four identifiers were contacted
C3_Witness ==
    /\ model = MODEL_FALLBACKS[3]
    /\ contacted[1] = << MODEL_FALLBACKS[3], MODEL_FALLBACKS[1],
                         MODEL_FALLBACKS[2], MODEL_FALLBACKS[4] >>
    /\ pc[1] = "done"

\* C4: a request is in flight for at most one attempt of a call at a time, every
\* attempt but the last one issued has completed with status 404, and an attempt
\* that ended otherwise (success, other failure status, transport failure) is
\* the last one issued.
C4_SequentialOnlyAfter404 ==
    \A c \in Callers :
        /\ Cardinality(InFlightOf(c)) <= 1
        /\ InFlightOf(c) # {} => pc[c] \in {"send", "text"}
        /\ Len(outcomes[c]) \in {Len(contacted[c]), Len(contacted[c]) - 1}
        /\ \A k \in 1..(Len(contacted[c]) - 1) : AnsweredIn(c, k, {404})
        /\ \A k \in 1..Len(outcomes[c]) :
              ~AnsweredIn(c, k, {404}) => k = Len(contacted[c])

\* a second request is in flight, alone, after the first was answered 404
C4_Witness ==
    /\ outcomes[1] = <<Responded(404)>>
    /\ Len(contacted[1]) = 2
    /\ Cardinality(InFlightOf(1)) = 1
    /\ pc[1] = "send"

UnparsableBodies == {"", "<html>502 Bad Gateway</html>", "{\"candidates\":\"x\"}"}

\* C5: after a success status whose body was read, the call returns at once:
\* ResponseFormatError when the body is no GenerationResponse, the parsed
\* response otherwise; the attempt is the last one, whatever fallbacks remain.
C5_SuccessStatusEndsCall ==
    \A c \in Callers : \A k \in 1..Len(outcomes[c]) :
        AnsweredIn(c, k, 200..299) =>
            /\ k = Len(outcomes[c])
            /\ Len(contacted[c]) = k
            /\ pc[c] \in {"text", "returned", "done"}
            /\ (Returned(c) /\ Unwrap(body[c]).ok) =>
                  IF Unwrap(body[c]).val \in UnparsableBodies
                  THEN /\ ~Unwrap(sent[c]).ok
                       /\ Unwrap(sent[c]).err.kind = "ResponseFormatError"
                  ELSE /\ Unwrap(sent[c]).ok
                       /\ Unwrap(sent[c]) = ParseResponse(Unwrap(body[c]).val)
                       /\ Unwrap(body[c]).val = BodyBlocked =>
                              Unwrap(sent[c]).val.prompt_feedback =
                                  Some(PromptFeedback(Some("SAFETY")))

\* an unparsable body on the first of five identifiers: one call, format error
C5_Witness ==
    /\ model = "custom-model"
    /\ pc[1] = "done"
    /\ outcomes[1] = <<Responded(200)>>
    /\ body[1] = Some(Ok("{\"candidates\":\"x\"}"))
    /\ contacted[1] = <<"custom-model">>
    /\ result[1] = Some(Err(ResponseFormatError(
           "Failed to parse API response: invalid type: string \"x\", "
               \o "expected a sequence at line 1 column 17")))

-----------------------------------------------------------------------------
(* Properties of extract_image_data, under SpecExtract *)

Extracted == IsSome(extracted)

Out == Unwrap(extracted)

\* the block reason of the prompt feedback, None when either is absent
BlockReason(resp) ==
    IF IsSome(resp.prompt_feedback)
    THEN Unwrap(resp.prompt_feedback).block_reason
    ELSE None

HasFirstCandidate(resp) ==
    IsSome(resp.candidates) /\ Len(Unwrap(resp.candidates)) >= 1

FirstCandidate(resp) == Unwrap(resp.candidates)[1]

HasImagePrefix(mime) == Len(mime) >= 6 /\ SubSeq(mime, 1, 6) = "image/"

IsImagePart(part) ==
    part.tag = "InlineData" /\ HasImagePrefix(part.inline_data.mime_type)

HasBlockedRating(cand) ==
    /\ IsSome(cand.safety_ratings)
    /\ \E k \in 1..Len(Unwrap(cand.safety_ratings)) :
          Unwrap(cand.safety_ratings)[k].blocked = Some(TRUE)

\* the finish reason of cand ends the extraction with SafetyFilter
FinishReasonFails(cand) ==
    /\ cand.finish_reason \notin {None, Some("STOP")}
    /\ HasBlockedRating(cand) \/ cand.finish_reason = Some("IMAGE_SAFETY")

\* the scan of the first candidate's parts is reached
ReachesScan(resp) ==
    /\ BlockReason(resp) = None
    /\ HasFirstCandidate(resp)
    /\ ~FinishReasonFails(FirstCandidate(resp))
    /\ IsSome(FirstCandidate(resp).content)

PartsOf(resp) == Unwrap(FirstCandidate(resp).content).parts

\* the first candidate is: finish reason STOP, no ratings, one valid PNG part
ImageCandidate ==
    Candidate(Some([parts |-> <<InlineData("image/png", "UE5H")>>]), Some("STOP"), None)

\* C6: a block reason in the prompt feedback makes the extraction fail with
\* SafetyFilter naming that reason, whatever the candidates are.
C6_BlockReasonFirst ==
    (Extracted /\ IsSome(BlockReason(response))) =>
        Out = Err(SafetyFilter("Request blocked: " \o Unwrap(BlockReason(response))))

\* blockReason SAFETY with a first candidate that holds a valid image
C6_Witness ==
    /\ response = GenerateContentResponse(Some(<<ImageCandidate>>),
                                          Some(PromptFeedback(Some("SAFETY"))))
    /\ extracted = Some(Err(SafetyFilter("Request blocked: SAFETY")))

\* the extraction failed at the prompt-feedback check
FailedAtFeedback(out) ==
    /\ ~out.ok
    /\ out.err.kind = "SafetyFilter"
    /\ Len(out.err.message) >= 17
    /\ SubSeq(out.err.message, 1, 17) = "Request blocked: "

\* the prompt-feedback check is passed and the candidates decide the outcome
ProceedsToCandidates ==
    /\ ~FailedAtFeedback(Out)
    /\ Out = extract_image_data([response EXCEPT !.prompt_feedback = None])
    /\ (HasFirstCandidate(response) /\ FirstCandidate(response) = ImageCandidate)
          => Out = Ok(<< <<80, 78, 71>>, None >>)

\* C7 as stated: with the prompt feedback absent, its block reason absent, or its
\* block reason the empty string, the extraction passes the prompt-feedback check
\* and goes on to the candidates.
C7_AsStated ==
    (Extracted /\ BlockReason(response) \in {None, Some("")}) => ProceedsToCandidates

\* C7, amended: with the prompt feedback absent or its block reason absent, the
\* extraction passes the prompt-feedback check and goes on to the candidates; a
\* block reason that is present and empty fails with SafetyFilter like any other.
C7_AbsentReasonProceeds ==
    /\ (Extracted /\ BlockReason(response) = None) => ProceedsToCandidates
    /\ (Extracted /\ BlockReason(response) = Some("")) =>
           Out = Err(SafetyFilter("Request blocked: "))

\* a prompt feedback without block reason, and a valid image: success
C7_Witness ==
    /\ response = GenerateContentResponse(Some(<<ImageCandidate>>),
                                          Some(PromptFeedback(None)))
    /\ extracted = Some(Ok(<< <<80, 78, 71>>, None >>))

\* the index of the first image part of parts
FirstImage(parts) ==
    CHOOSE j \in 1..Len(parts) :
        IsImagePart(parts[j]) /\ \A k \in 1..(j - 1) : ~IsImagePart(parts[k])

\* the text of the last text part among parts[1..n], None if there is none
LastText(parts, n) ==
    LET texts == {k \in 1..n : parts[k].tag = "Text"}
    IN  IF texts = {} THEN None
        ELSE Some(parts[CHOOSE k \in texts : \A h \in texts : h <= k].text)

\* resp with the parts of its first candidate cut after the n-th
CutAfter(resp, n) ==
    [resp EXCEPT !.candidates[1][1].content[1].parts = SubSeq(@, 1, n)]

\* C8: when the scan is reached and finds an image part, the first such part
\* decides: if its payload decodes, the result is its bytes with the text of the
\* last text part before it, and the parts after it change nothing.
C8_FirstImageWins ==
    (/\ Extracted
     /\ ReachesScan(response)
     /\ \E k \in 1..Len(PartsOf(response)) : IsImagePart(PartsOf(response)[k])) =>
        LET parts   == PartsOf(response)
            j       == FirstImage(parts)
            decoded == Base64Decode(parts[j].inline_data.data)
        IN  /\ decoded.ok => Out = Ok(<<decoded.val, LastText(parts, j - 1)>>)
            /\ Out = extract_image_data(CutAfter(response, j))

\* two texts, an image, and a second image after it
C8_Witness ==
    /\ HasFirstCandidate(response)
    /\ FirstCandidate(response).content =
           Some([parts |-> << Text("here you go"),
                              InlineData("image/webp", "/9g="),
                              InlineData("image/png", "UE5H") >>])
    /\ FirstCandidate(response).finish_reason = Some("MAX_TOKENS")
    /\ extracted = Some(Ok(<< <<255, 216>>, Some("here you go") >>))

\* C9: when the scan is reached and finds no image part but some text part, the
\* extraction fails with ApiResponseError embedding the last text part's text.
C9_TextOnlyFails ==
    (/\ Extracted
     /\ ReachesScan(response)
     /\ \A k \in 1..Len(PartsOf(response)) : ~IsImagePart(PartsOf(response)[k])
     /\ \E k \in 1..Len(PartsOf(response)) : PartsOf(response)[k].tag = "Text") =>
        /\ ~Out.ok
        /\ Out = Err(ApiResponseError(
               "Model returned text instead of image: "
                   \o Unwrap(LastText(PartsOf(response), Len(PartsOf(response))))))

\* one text part and no inline data
C9_Witness ==
    /\ response = GenerateContentResponse(
           Some(<< Candidate(Some([parts |-> <<Text("sorry, can't help")>>]),
                             Some("STOP"), None) >>),
           None)
    /\ extracted = Some(Err(ApiResponseError(
           "Model returned text instead of image: sorry, can't help")))

\* C10: past the prompt-feedback check, a first candidate with finish reason
\* IMAGE_SAFETY and no rating marked blocked fails with SafetyFilter and the
\* fixed message, whatever its content.
C10_ImageSafetyGeneric ==
    (/\ Extracted
     /\ BlockReason(response) = None
     /\ HasFirstCandidate(response)
     /\ FirstCandidate(response).finish_reason = Some("IMAGE_SAFETY")
     /\ ~HasBlockedRating(FirstCandidate(response))) =>
        Out = Err(SafetyFilter("Image content blocked by safety filters"))

\* IMAGE_SAFETY, ratings none of which is blocked, and a valid image part
C10_Witness ==
    /\ response = GenerateContentResponse(
           Some(<< Candidate(Some([parts |-> <<InlineData("image/png", "UE5H")>>]),
                             Some("IMAGE_SAFETY"), Some(<<RDanger, RHate>>)) >>),
           None)
    /\ extracted = Some(Err(SafetyFilter("Image content blocked by safety filters")))

\* the blocked ratings of ratings, in order, each as "category: probability"
BlockedLabels(ratings) ==
    LET flagged(r) == r.blocked = Some(TRUE)
        kept == SelectSeq(ratings, flagged)
    IN  [k \in 1..Len(kept) |-> kept[k].category \o ": " \o kept[k].probability]

\* C11: past the prompt-feedback check, a first candidate whose finish reason is
\* present and not STOP and that has a rating marked blocked fails with
\* SafetyFilter listing the blocked ratings only, as "category: probability", in
\* the ratings' order, also when the finish reason is IMAGE_SAFETY.
C11_BlockedRatingsListed ==
    (/\ Extracted
     /\ BlockReason(response) = None
     /\ HasFirstCandidate(response)
     /\ FirstCandidate(response).finish_reason \notin {None, Some("STOP")}
     /\ HasBlockedRating(FirstCandidate(response))) =>
        Out = Err(SafetyFilter(CommaList(
                  BlockedLabels(Unwrap(FirstCandidate(response).safety_ratings)))))

\* IMAGE_SAFETY with a blocked, a flagless and a second blocked rating
C11_Witness ==
    /\ BlockReason(response) = None
    /\ HasFirstCandidate(response)
    /\ FirstCandidate(response).finish_reason = Some("IMAGE_SAFETY")
    /\ FirstCandidate(response).safety_ratings =
           Some(<<RSexual, RDanger, RHarassment>>)
    /\ extracted = Some(Err(SafetyFilter(
           "HARM_CATEGORY_SEXUALLY_EXPLICIT: MEDIUM, HARM_CATEGORY_HARASSMENT: HIGH")))

\* resp with the finish reason of its first candidate replaced by STOP
WithStop(resp) == [resp EXCEPT !.candidates[1][1].finish_reason = Some("STOP")]

\* C12: a first candidate whose finish reason is neither STOP nor IMAGE_SAFETY and
\* that has no rating marked blocked gives the result of the same response with
\* finish reason STOP, and past the prompt-feedback check never SafetyFilter.
C12_LenientFallThrough ==
    (/\ Extracted
     /\ HasFirstCandidate(response)
     /\ FirstCandidate(response).finish_reason
            \notin {None, Some("STOP"), Some("IMAGE_SAFETY")}
     /\ ~HasBlockedRating(FirstCandidate(response))) =>
        /\ Out = extract_image_data(WithStop(response))
        /\ BlockReason(response) = None =>
              (Out.ok \/ Out.err.kind \in {"NoImageData", "ApiResponseError",
                                           "Base64Error"})

\* MAX_TOKENS, ratings none of which is blocked, a text and a valid image
C12_Witness ==
    /\ BlockReason(response) = None
    /\ HasFirstCandidate(response)
    /\ FirstCandidate(response) =
           Candidate(Some([parts |-> << Text("here you go"),
                                        InlineData("image/png", "UE5H") >>]),
                     Some("MAX_TOKENS"), Some(<<RDanger, RHate>>))
    /\ extracted = Some(Ok(<< <<80, 78, 71>>, Some("here you go") >>))

\* C13: a success carries the bytes of the first candidate's first image part;
\* inline data of another MIME type is neither returned nor taken for text, so
\* parts that are all such inline data give NoImageData.
C13_OnlyImageMime ==
    /\ (Extracted /\ Out.ok) =>
          /\ HasFirstCandidate(response)
          /\ IsSome(FirstCandidate(response).content)
          /\ \E k \in 1..Len(PartsOf(response)) :
                /\ IsImagePart(PartsOf(response)[k])
                /\ \A h \in 1..(k - 1) : ~IsImagePart(PartsOf(response)[h])
                /\ Base64Decode(PartsOf(response)[k].inline_data.data) = Ok(Out.val[1])
    /\ (/\ Extracted
        /\ ReachesScan(response)
        /\ Len(PartsOf(response)) >= 1
        /\ \A k \in 1..Len(PartsOf(response)) :
              /\ PartsOf(response)[k].tag = "InlineData"
              /\ ~IsImagePart(PartsOf(response)[k])) =>
          Out = Err([kind |-> "NoImageData"])

\* text/plain inline data twice, with a payload that would decode
C13_Witness ==
    /\ BlockReason(response) = None
    /\ HasFirstCandidate(response)
    /\ FirstCandidate(response).finish_reason = Some("STOP")
    /\ FirstCandidate(response).content =
           Some([parts |-> << InlineData("text/plain", "UE5H"),
                              InlineData("text/plain", "UE5H") >>])
    /\ extracted = Some(Err([kind |-> "NoImageData"]))

\* resp with the candidates after the first removed
FirstOnly(resp) == [resp EXCEPT !.candidates[1] = <<Head(@)>>]

HasImageAmong(parts) == \E k \in 1..Len(parts) : IsImagePart(parts[k])

\* C14: the result is that of the response with its first candidate alone: a
\* first candidate without image fails whatever follows it, and a later candidate
\* that is blocked does not make a good first candidate fail.
C14_FirstCandidateOnly ==
    (Extracted /\ HasFirstCandidate(response)) =>
        /\ Out = extract_image_data(FirstOnly(response))
        /\ (\/ ~IsSome(FirstCandidate(response).content)
            \/ ~HasImageAmong(PartsOf(response))) => ~Out.ok
        /\ (BlockReason(response) = None /\ FirstCandidate(response) = ImageCandidate)
              => Out = Ok(<< <<80, 78, 71>>, None >>)

\* a text-only first candidate, followed by a blocked and by a good candidate
C14_Witness ==
    /\ BlockReason(response) = None
    /\ HasFirstCandidate(response)
    /\ Len(Unwrap(response.candidates)) = 3
    /\ Unwrap(response.candidates)[3] = ImageCandidate
    /\ FirstCandidate(response) =
           Candidate(Some([parts |-> <<Text("sorry, can't help")>>]), Some("STOP"), None)
    /\ extracted = Some(Err(ApiResponseError(
           "Model returned text instead of image: sorry, can't help")))

\* C15: with no block reason, absent or empty candidates, a first candidate that
\* passes the finish-reason check without content, and parts with neither image
\* nor text all give NoImageData; every outcome is a success or one of
\* SafetyFilter, NoImageData, ApiResponseError and the decode error.
C15_NoImageDataCases ==
    Extracted =>
        /\ (Out.ok \/ Out.err.kind \in {"SafetyFilter", "NoImageData",
                                        "ApiResponseError", "Base64Error"})
        /\ (BlockReason(response) = None /\ ~HasFirstCandidate(response)) =>
              Out = Err([kind |-> "NoImageData"])
        /\ (/\ BlockReason(response) = None
            /\ HasFirstCandidate(response)
            /\ ~FinishReasonFails(FirstCandidate(response))
            /\ ~IsSome(FirstCandidate(response).content)) =>
              Out = Err([kind |-> "NoImageData"])
        /\ (/\ ReachesScan(response)
            /\ ~HasImageAmong(PartsOf(response))
            /\ \A k \in 1..Len(PartsOf(response)) : PartsOf(response)[k].tag # "Text")
              => Out = Err([kind |-> "NoImageData"])

\* a first candidate with finish reason MAX_TOKENS, no blocked rating, no content
C15_Witness ==
    /\ response = GenerateContentResponse(
           Some(<< Candidate(None, Some("MAX_TOKENS"), Some(<<RDanger, RHate>>)) >>),
           Some(PromptFeedback(None)))
    /\ extracted = Some(Err([kind |-> "NoImageData"]))

\* C20: when the scan is reached and the payload of the first image part does not
\* decode, the extraction fails with that decode error: a valid image part after
\* it is not returned and the text seen before it is not reported.
C20_MalformedFirstImageFails ==
    (/\ Extracted
     /\ ReachesScan(response)
     /\ HasImageAmong(PartsOf(response))
     /\ ~Base64Decode(PartsOf(response)[FirstImage(PartsOf(response))]
                          .inline_data.data).ok) =>
        /\ ~Out.ok
        /\ Out.err.kind = "Base64Error"
        /\ Out = Base64Decode(PartsOf(response)[FirstImage(PartsOf(response))]
                                  .inline_data.data)

\* a text, an image whose payload lacks its padding, then a valid image
C20_Witness ==
    /\ BlockReason(response) = None
    /\ HasFirstCandidate(response)
    /\ FirstCandidate(response).finish_reason = None
    /\ FirstCandidate(response).content =
           Some([parts |-> << Text("here you go"),
                              InlineData("image/jpeg", "UE5"),
                              InlineData("image/png", "UE5H") >>])
    /\ extracted = Some(Err([kind |-> "Base64Error", why |-> "InvalidPadding"]))

\* resp with the safety ratings of its first candidate removed
WithoutRatings(resp) == [resp EXCEPT !.candidates[1][1].safety_ratings = None]

\* C21: past the prompt-feedback check, a first candidate whose finish reason is
\* absent or STOP never fails with SafetyFilter, whatever its ratings: the result
\* is that of the candidate without ratings, and with a blocked rating and an
\* image part whose payload decodes it is the success with that image.
C21_RatingsOnlyUnderNonStop ==
    (/\ Extracted
     /\ BlockReason(response) = None
     /\ HasFirstCandidate(response)
     /\ FirstCandidate(response).finish_reason \in {None, Some("STOP")}) =>
        /\ Out.ok \/ Out.err.kind # "SafetyFilter"
        /\ Out = extract_image_data(WithoutRatings(response))
        /\ (/\ HasBlockedRating(FirstCandidate(response))
            /\ IsSome(FirstCandidate(response).content)
            /\ HasImageAmong(PartsOf(response))
            /\ Base64Decode(PartsOf(response)[FirstImage(PartsOf(response))]
                                .inline_data.data).ok) =>
              /\ Out.ok
              /\ Ok(Out.val[1]) =
                     Base64Decode(PartsOf(response)[FirstImage(PartsOf(response))]
                                      .inline_data.data)

\* finish reason STOP, two ratings marked blocked, one valid image part
C21_Witness ==
    /\ BlockReason(response) = None
    /\ HasFirstCandidate(response)
    /\ FirstCandidate(response) =
           Candidate(Some([parts |-> << InlineData("image/webp", "/9g=") >>]),
                     Some("STOP"), Some(<<RSexual, RDanger, RHarassment>>))
    /\ extracted = Some(Ok(<< <<255, 216>>, None >>))

-----------------------------------------------------------------------------
(* Properties of failure propagation, classification, concurrency and      *)
(* termination, under Spec, SpecConcurrent and SpecFair                    *)

LastOutcome(c) == outcomes[c][Len(outcomes[c])]

\* the last attempt of invocation c ended with a transport failure in send()
SendFailed(c) ==
    /\ Len(outcomes[c]) >= 1
    /\ LastOutcome(c) = [kind |-> "transport"]

\* the last attempt of invocation c got a response whose body could not be read
BodyFailed(c) ==
    /\ Len(outcomes[c]) >= 1
    /\ Len(outcomes[c]) = Len(contacted[c])
    /\ LastOutcome(c).kind = "response"
    /\ pc[c] # "text"
    /\ body[c] # None
    /\ ~Unwrap(body[c]).ok

\* the error that ends invocation c
FinalError(c) ==
    IF pc[c] = "done" THEN Unwrap(result[c]).err ELSE Unwrap(sent[c]).err

\* C16: a transport failure at any step of an attempt, in send() or in the read
\* of the body of a success or of a non-success response, ends the call with that
\* network error, and generate_image passes every error of send_request on as it is.
C16_AsStated ==
    \A c \in Callers :
        /\ SendFailed(c) =>
              (Returned(c) /\ sent[c] = Some(Err([kind |-> "NetworkError",
                                                  step |-> "send"])))
        /\ BodyFailed(c) => (Returned(c) /\ sent[c] = body[c])
        /\ (pc[c] = "done" /\ ~Unwrap(sent[c]).ok) => result[c] = sent[c]

RetryableAsClaimed(e) ==
    \/ e.kind = "NetworkError"
    \/ e.kind = "ApiError" /\ e.status \in 500..599

\* the error that ended invocation c is the outcome of the last request issued
ErrorEndsCalls(c) ==
    /\ Len(outcomes[c]) = Len(contacted[c])
    /\ InFlightOf(c) = {}
    /\ NoDuplicates(contacted[c])
    /\ \/ SendFailed(c)
       \/ LastOutcome(c).kind = "response"
             /\ (LastOutcome(c).status \in 200..299 \/ LastOutcome(c).status \in 500..599)

C17_Classification ==
    \A c \in Callers :
        (Returned(c) /\ (pc[c] = "done" \/ ~Unwrap(sent[c]).ok)
                     /\ (pc[c] = "done" => ~Unwrap(result[c]).ok)) =>
            /\ is_retryable(FinalError(c)) = RetryableAsClaimed(FinalError(c))
            /\ FinalError(c).kind \in {"ApiResponseError", "NoImageData", "SafetyFilter",
                                       "Base64Error", "ResponseFormatError"}
                  => ~is_retryable(FinalError(c))
            /\ is_retryable(FinalError(c)) => ErrorEndsCalls(c)

C17_NoCallAfterError ==
    \A c \in Callers :
        (Returned(c) /\ ~Unwrap(sent[c]).ok /\ is_retryable(Unwrap(sent[c]).err)) =>
            /\ contacted'[c] = contacted[c]
            /\ inflight' = inflight
            /\ outcomes'[c] = outcomes[c]
            /\ sent'[c] = sent[c]

\* C17: is_retryable holds of the network error and of ApiError with a status of
\* 500..599 and of no other error that ends an invocation; an invocation that
\* ended with a retryable error issues no request after it.
C17_RetryableNotActedOn == []C17_Classification /\ [][C17_NoCallAfterError]_vars

\* 599 on the second identifier: retryable, and two requests were all
C17_Witness ==
    /\ pc[1] = "done"
    /\ outcomes[1] = <<Responded(404), Responded(599)>>
    /\ Len(contacted[1]) = 2
    /\ result[1] = Some(Err([kind |-> "ApiError", status |-> 599, message |-> ""]))
    /\ is_retryable(Unwrap(result[1]).err)

\* what send_request of invocation c returns, from the answers c itself got
OwnSent(c) ==
    IF SendFailed(c) THEN Err([kind |-> "NetworkError", step |-> "send"])
    ELSE IF LastOutcome(c).status = 404
    THEN Err([kind |-> "ApiResponseError",
              message |-> "No available image model found. Tried: "
                              \o CommaList(AttemptSequence)])
    ELSE IF LastOutcome(c).status \in 200..299
    THEN IF Unwrap(body[c]).ok THEN ParseResponse(Unwrap(body[c]).val)
         ELSE Unwrap(body[c])
    ELSE Err([kind |-> "ApiError", status |-> LastOutcome(c).status,
              message |-> IF Unwrap(body[c]).ok THEN Unwrap(body[c]).val ELSE ""])

\* C18: with two invocations on one client interleaved in any order, each contacts
\* a prefix of the attempt sequence that starts at the primary and goes on only
\* after its own 404 answers, and its result is the one its own answers give.
C18_InvocationsIndependent ==
    \A c \in Callers :
        /\ IsPrefix(contacted[c], AttemptSequence)
        /\ Len(contacted[c]) >= 1 => contacted[c][1] = model
        /\ tried[c] = contacted[c]
        /\ Len(outcomes[c]) \in {Len(contacted[c]), Len(contacted[c]) - 1}
        /\ \A k \in 1..(Len(contacted[c]) - 1) : AnsweredIn(c, k, {404})
        /\ \A r \in InFlightOf(c) :
              r.attempt = Len(contacted[c]) /\ r.model = contacted[c][r.attempt]
        /\ Returned(c) => sent[c] = Some(OwnSent(c))
        /\ pc[c] = "done" =>
              result[c] = IF OwnSent(c).ok
                          THEN Some(extract_image_data(OwnSent(c).val))
                          ELSE Some(OwnSent(c))

\* the second invocation's first request, to the primary, is in flight together
\* with the first invocation's third request
C18_Witness ==
    /\ Cardinality(inflight) = 2
    /\ pc[1] = "send"
    /\ Len(contacted[1]) = 3
    /\ pc[2] = "text"
    /\ contacted[2] = <<model>>
    /\ model = "gemini-2.5-flash-image"

C19_Bounded ==
    \A c \in Callers :
        /\ Len(contacted[c]) <= 5
        /\ model \in {"gemini-2.5-flash-image", "gemini-3.1-flash-image-preview",
                      "gemini-3-pro-image-preview",
                      "gemini-2.0-flash-exp-image-generation"}
              => Len(contacted[c]) <= 4
        /\ Len(outcomes[c]) <= Len(contacted[c])
        /\ Returned(c) =>
              \/ Unwrap(sent[c]).ok
              \/ Unwrap(sent[c]).err.kind \in {"ResponseFormatError", "ApiError",
                                               "NetworkError"}
              \/ /\ Unwrap(sent[c]).err.kind = "ApiResponseError"
                 /\ StartsWith(Unwrap(sent[c]).err.message,
                               "No available image model found. Tried: ")

\* C19: when every network call completes, a started send_request returns, with
\* a parsed response, ResponseFormatError, ApiError, the network error or the
\* exhausted-fallback error; it issues at most five requests, and at most four
\* when the primary is one of the fallbacks.
C19_Terminates ==
    /\ []C19_Bounded
    /\ (pc[1] \in {"loop", "send", "text"}) ~> Returned(1)

\* five requests, all answered 404, with a primary that is no fallback
C19_Witness ==
    /\ model = ""
    /\ pc[1] = "returned"
    /\ Len(contacted[1]) = 5
    /\ \A k \in 1..5 : outcomes[1][k] = Responded(404)
    /\ Unwrap(sent[1]).err.kind = "ApiResponseError"

-----------------------------------------------------------------------------
(* Properties of run(), under SpecRun *)

NoCredential == cli.api_key = None /\ cli.env_key = None

NoNetworkCall == contacted[1] = << >> /\ inflight = {} /\ outcomes[1] = << >>

HasEvent(e) == \E k \in 1..Len(run.events) : run.events[k] = e

Warned ==
    \E k \in 1..Len(run.events) :
        StartsWith(run.events[k], "warning: ")

\* the events of a run come in the order generating, success, preview or warning
EventsInOrder ==
    /\ Len(run.events) <= 3
    /\ Len(run.events) >= 1 => run.events[1] = "generating"
    /\ Len(run.events) >= 2 => run.events[2] = "success"
    /\ Len(run.events) = 3 =>
          \/ run.events[3] = "preview"
          \/ StartsWith(run.events[3], "warning: ")

\* C22: a run without credential ends with the missing-key error and no network
\* call; the file is written only once generate_image has returned image bytes,
\* and never after a generation error, which ends the run as it is; a preview
\* that fails after the save leaves a warning and the run's result Ok.
C22_RunOrdering ==
    /\ EventsInOrder
    /\ run.pc = "start" => (NoNetworkCall /\ pc[1] = "idle")
    /\ (NoCredential /\ run.pc # "start") =>
          /\ run.pc = "exit"
          /\ run.result = Some(Err([kind |-> "MissingApiKey"]))
          /\ NoNetworkCall
          /\ pc[1] = "idle"
          /\ run.file = None
    /\ ~NoCredential => run.result # Some(Err([kind |-> "MissingApiKey"]))
    /\ run.file # None =>
          /\ pc[1] = "done"
          /\ Unwrap(result[1]).ok
          /\ IsPrefix(Unwrap(run.file), Unwrap(result[1]).val[1])
          /\ run.pc \in {"saved", "exit"}
    /\ HasEvent("success") => run.file = Some(Unwrap(result[1]).val[1])
    /\ (pc[1] = "done" /\ ~Unwrap(result[1]).ok) =>
          /\ run.file = None
          /\ ~HasEvent("success")
          /\ run.pc \in {"generating", "exit"}
          /\ run.pc = "exit" => run.result = result[1]
    /\ (HasEvent("preview") \/ Warned) =>
          /\ ~cli.no_preview
          /\ HasEvent("success")
          /\ run.pc = "exit"
    /\ (run.pc = "exit" /\ HasEvent("success")) => run.result = Some(Ok(<< >>))

\* the key comes from the environment, the image is saved, viu exits non-zero:
\* the run ends Ok with a warning
C22_Witness ==
    /\ cli = [api_key |-> None, env_key |-> Some("key-of-environment"),
              no_preview |-> FALSE]
    /\ run.pc = "exit"
    /\ run.api_key = Some("key-of-environment")
    /\ run.file = Some(<<80, 78, 71>>)
    /\ run.events = << "generating", "success",
                       "warning: Could not display preview: Terminal display error: "
                           \o "viu preview process exited with non-zero status" >>
    /\ run.result = Some(Ok(<< >>))

====
